---- MODULE Spec2Model ----
(***************************************************************************)
(* Model of src/main.py: the quiz-solving loop solve_quiz_recursive, the   *)
(* helpers parse_json_response and execute_generated_code, and the POST /  *)
(* endpoint start_quiz, run by one asyncio event loop.                     *)
(*                                                                         *)
(* Python values are tagged records [t, v]: t is the Python type, v the    *)
(* payload.  A str is a sequence of tokens; a token stands for one         *)
(* character (" ", "\n", "{", "/", ..., "bq" for the backquote) or for a   *)
(* run of characters that no operation of the program cuts ("json",        *)
(* "su:abs", "http:", "host", ...).                                        *)
(***************************************************************************)
EXTENDS Naturals, Sequences, FiniteSets, TLC

\* ------------------------------------------------------------ Python values

PyNone == [t |-> "none", v |-> 0]
PyStr(s) == [t |-> "str", v |-> s]
PyNum(n) == [t |-> "num", v |-> n]
PyBool(b) == [t |-> "bool", v |-> b]
PyDict(f) == [t |-> "dict", v |-> f]
PyList(items) == [t |-> "list", v |-> items]

EmptyMap == [k \in {} |-> PyNone]

\* bool(x): Python truthiness, as 'not x' and 'if x:' use it
Truthy(x) ==
  CASE x.t = "none" -> FALSE
    [] x.t = "str"  -> x.v # <<>>
    [] x.t = "num"  -> x.v # 0
    [] x.t = "bool" -> x.v
    [] x.t = "dict" -> DOMAIN x.v # {}
    [] x.t = "list" -> x.v # <<>>

\* d.get(key) of a dict d: the value, or None when the key is absent
DictGet(d, key) == IF key \in DOMAIN d.v THEN d.v[key] ELSE PyNone

\* ------------------------------------------------------------ str operations

IsSpace(c) == c \in {" ", "\n"}

RECURSIVE LStrip(_)
LStrip(s) == IF s # <<>> /\ IsSpace(Head(s)) THEN LStrip(Tail(s)) ELSE s

RECURSIVE RStrip(_)
RStrip(s) ==
  IF s # <<>> /\ IsSpace(s[Len(s)]) THEN RStrip(SubSeq(s, 1, Len(s) - 1)) ELSE s

\* str.strip()
Strip(s) == RStrip(LStrip(s))

\* the backquote character
BQ == "bq"

\* str.startswith of three backquotes (line 46)
StartsWithFence(s) == Len(s) >= 3 /\ s[1] = BQ /\ s[2] = BQ /\ s[3] = BQ

\* str.split(sep): the list of pieces, always at least one
RECURSIVE SplitAcc(_, _, _, _)
SplitAcc(s, sep, cur, acc) ==
  IF s = <<>> THEN Append(acc, cur)
  ELSE IF Head(s) = sep THEN SplitAcc(Tail(s), sep, <<>>, Append(acc, cur))
  ELSE SplitAcc(Tail(s), sep, Append(cur, Head(s)), acc)

Split(s, sep) == SplitAcc(s, sep, <<>>, <<>>)

\* sep.join(pieces)
RECURSIVE Join(_, _)
Join(pieces, sep) ==
  IF pieces = <<>> THEN <<>>
  ELSE IF Len(pieces) = 1 THEN pieces[1]
  ELSE pieces[1] \o <<sep>> \o Join(Tail(pieces), sep)

\* lines[1:-1]
DropFirstLast(lines) == SubSeq(lines, 2, Len(lines) - 1)

\* ------------------------------------------------------------ json.loads

\* The JSON texts of the model are built from the structural characters, the
\* number literal 5 and member tokens: one token is one key-value pair.
MemberKey(tok) ==
  CASE tok \in {"su:abs", "su:root", "su:rel", "su:empty", "su:num"} -> "submit_url"
    [] tok = "q:task" -> "question"

MemberVal(tok) ==
  CASE tok = "su:abs"   -> PyStr(<<"http:", "/", "/", "host", "/", "submit">>)
    [] tok = "su:root"  -> PyStr(<<"/", "submit">>)
    [] tok = "su:rel"   -> PyStr(<<"submit">>)
    [] tok = "su:empty" -> PyStr(<<>>)
    [] tok = "su:num"   -> PyNum(5)
    [] tok = "q:task"   -> PyStr(<<"task">>)

MemberTokens == {"su:abs", "su:root", "su:rel", "su:empty", "su:num", "q:task"}

Fail == [ok |-> FALSE, val |-> PyNone, rest |-> <<>>]
Parsed(val, rest) == [ok |-> TRUE, val |-> val, rest |-> rest]

\* a later duplicate key replaces the earlier one
Put(f, key, val) == [k \in DOMAIN f \cup {key} |-> IF k = key THEN val ELSE f[k]]

RECURSIVE ParseValue(_), ParseMembers(_, _), ParseItems(_, _)
ParseValue(s) ==
  IF s = <<>> THEN Fail
  ELSE IF Head(s) = "5" THEN Parsed(PyNum(5), Tail(s))
  ELSE IF Head(s) = "{" THEN
    IF Len(s) >= 2 /\ s[2] = "}" THEN Parsed(PyDict(EmptyMap), SubSeq(s, 3, Len(s)))
    ELSE ParseMembers(Tail(s), EmptyMap)
  ELSE IF Head(s) = "[" THEN
    IF Len(s) >= 2 /\ s[2] = "]" THEN Parsed(PyList(<<>>), SubSeq(s, 3, Len(s)))
    ELSE ParseItems(Tail(s), <<>>)
  ELSE Fail

ParseMembers(s, acc) ==
  IF Len(s) < 2 \/ Head(s) \notin MemberTokens THEN Fail
  ELSE LET f == Put(acc, MemberKey(s[1]), MemberVal(s[1]))
       IN IF s[2] = "}" THEN Parsed(PyDict(f), SubSeq(s, 3, Len(s)))
          ELSE IF s[2] = "," THEN ParseMembers(SubSeq(s, 3, Len(s)), f)
          ELSE Fail

ParseItems(s, acc) ==
  LET r == ParseValue(s)
  IN IF ~r.ok \/ r.rest = <<>> THEN Fail
     ELSE IF Head(r.rest) = "]" THEN Parsed(PyList(Append(acc, r.val)), Tail(r.rest))
     ELSE IF Head(r.rest) = "," THEN ParseItems(Tail(r.rest), Append(acc, r.val))
     ELSE Fail

\* whitespace between JSON tokens is insignificant
NoSpace(s) == SelectSeq(s, LAMBDA c : ~IsSpace(c))

\* json.loads(text): ok = FALSE stands for json.JSONDecodeError
json_loads(s) ==
  LET r == ParseValue(NoSpace(s))
  IN IF r.ok /\ r.rest = <<>> THEN r ELSE Fail

\* ------------------------------------------------------------ parse_json_response

\* clean_text after lines 44-49
CleanText(s) ==
  LET clean_text == Strip(s)
  IN IF StartsWithFence(clean_text)
     THEN Join(DropFirstLast(Split(clean_text, "\n")), "\n")
     ELSE clean_text

\* the list is returned as it is
UnwrapListKeeps(data) == data

\* lines 54-59: a list gives its first item, or {} when empty
UnwrapList(data) ==
  IF data.t = "list"
  THEN IF Len(data.v) > 0 THEN data.v[1] ELSE PyDict(EmptyMap)
  ELSE data

\* parse_json_response(text); text is a str or None (None.strip() raises
\* AttributeError inside the try, so None is returned)
parse_json_response(text) ==
  IF text.t # "str" THEN PyNone
  ELSE LET r == json_loads(CleanText(text.v))
       IN IF r.ok THEN UnwrapList(r.val) ELSE PyNone

\* ------------------------------------------------------------ execute_generated_code

\* What the generated code does when exec runs it (after lines 82-84 removed
\* its fencing).  Its top-level statements, in this order: bind the names
\* sets_global under a 'global' declaration, bind the names binds (by
\* assignment, import or def), read the names reads_top, and then have the
\* effect top; defines tells whether they bind get_answer.  Calling
\* get_answer() reads the names reads_body and then has the effect body.
\* "raise" is an exception derived from Exception, "exit" is SystemExit
\* (sys.exit(), exit()), which does not derive from Exception.
Code(top, defines, body, sets_global, binds, reads_top, reads_body) ==
  [t |-> "code",
   v |-> [top |-> top, defines |-> defines, body |-> body, sets_global |-> sets_global,
          binds |-> binds, reads_top |-> reads_top, reads_body |-> reads_body]]

\* code that uses no name but the builtins
GenCode(top, defines, body) == Code(top, defines, body, {}, {}, {}, {})

\* the names bound in the namespace of the module main (lines 1-19 and the
\* definitions of lines 22-254): what globals() returns at line 89
ModuleGlobals ==
  {"os", "json", "asyncio", "requests", "traceback", "time", "FastAPI",
   "BackgroundTasks", "HTTPException", "Request", "BaseModel", "async_playwright",
   "genai", "types", "app", "GEMINI_API_KEY", "client", "MODEL_NAME", "startup_event",
   "QuizRequest", "parse_json_response", "execute_generated_code",
   "solve_quiz_recursive", "start_quiz", "health"}

\* the names the imports of lines 73-79 bind
ImportedNames == {"pd", "np", "json", "requests", "io", "PyPDF2", "re"}

\* the names that lines 66-82 bind: locals of the function
\* execute_generated_code, which exec(code_str, globals(), local_scope) does
\* not hand to the code
FunctionLocals == ImportedNames \cup {"local_scope", "code_str"}

\* local_scope after exec: the names the top level bound without 'global'
LocalScope(c) == c.binds \cup (IF c.defines THEN {"get_answer"} ELSE {})

\* globals() after the top level ran
GlobalsAfter(c, globals) == globals \cup c.sets_global

\* the names the top level of the code resolves: exec looks a name up in
\* local_scope and then in globals()
TopLevelNames(c, globals) == c.binds \cup GlobalsAfter(c, globals)

\* the names the body of get_answer resolves: a function defined by the code
\* has globals() as its global namespace, and local_scope is no enclosing
\* scope of it
BodyNames(c, globals) == GlobalsAfter(c, globals)

Returned(val, globals) == [escaped |-> FALSE, val |-> val, globals |-> globals]
Escaped(globals) == [escaped |-> TRUE, val |-> PyNone, globals |-> globals]

\* the code raises while exec runs it or get_answer() is called (NameError
\* included), or binds no get_answer
CodeFails(code_str, globals) ==
  /\ code_str.t = "code"
  /\ \/ ~(code_str.v.reads_top \subseteq TopLevelNames(code_str.v, globals))
     \/ code_str.v.top # "ok"
     \/ ~code_str.v.defines
     \/ ~(code_str.v.reads_body \subseteq BodyNames(code_str.v, globals))
     \/ code_str.v.body \in {"raise", "exit"}

\* lines 66-99, with globals the module namespace before the call: the value
\* returned and the module namespace after it, or escaped = TRUE when an
\* exception leaves the function because 'except Exception' (line 96) does
\* not catch it.  A code_str that is None raises AttributeError at line 82,
\* inside the try; a name that is not resolved raises NameError.
execute_generated_code(code_str, globals) ==
  IF code_str.t # "code" THEN Returned(PyNone, globals)
  ELSE LET c == code_str.v
           after == GlobalsAfter(c, globals)
       IN IF ~(c.reads_top \subseteq TopLevelNames(c, globals)) THEN Returned(PyNone, after)
          ELSE IF c.top = "raise" THEN Returned(PyNone, after)
          ELSE IF c.top = "exit" THEN Escaped(after)
          ELSE IF "get_answer" \notin LocalScope(c) THEN Returned(PyNone, after)
          ELSE IF ~(c.reads_body \subseteq BodyNames(c, globals)) THEN Returned(PyNone, after)
          ELSE CASE c.body = "ret" -> Returned(PyNum(42), after)
                 [] c.body = "none" -> Returned(PyNone, after)
                 [] c.body = "raise" -> Returned(PyNone, after)
                 [] c.body = "exit" -> Escaped(after)

\* ------------------------------------------------------------ submit URL (lines 204-208)

\* str.startswith("http"): the tokens that begin with these four characters
StartsWithHttp(s) == s # <<>> /\ Head(s) \in {"http:", "https:"}

\* str.startswith("/")
StartsWithSlash(s) == s # <<>> /\ Head(s) = "/"

Resolved(url) == [ok |-> TRUE, url |-> url]
\* AttributeError (submit_url is no str) or IndexError (base_parts[2])
ResolveError == [ok |-> FALSE, url |-> <<>>]

\* the URL posted to, from the str current_url and the value submit_url
ResolveSubmitUrl(current_url, submit_url) ==
  IF submit_url.t # "str" THEN ResolveError
  ELSE IF StartsWithHttp(submit_url.v) THEN Resolved(submit_url.v)
  ELSE LET base_parts == Split(current_url, "/")
       IN IF Len(base_parts) < 3 THEN ResolveError
          ELSE LET base_domain == base_parts[1] \o <<"/", "/">> \o base_parts[3]
               IN IF StartsWithSlash(submit_url.v)
                  THEN Resolved(base_domain \o submit_url.v)
                  ELSE Resolved(current_url \o <<"/">> \o submit_url.v)

\* ------------------------------------------------------------ bounds and inputs

\* number of POST / requests the clients send
NumReqs == 2
Reqs == 1..NumReqs

\* follow-up URLs the quiz servers hand out: more than any run can use
ChainLen == 12
\* follow-up URLs they hand out when several requests are served
ServerChain == 1

\* for step in range(10)
MaxSteps == 10
\* for attempt in range(3)
MaxAttempts == 3
\* time.sleep(5)
RetryDelay == 5

Q1 == <<"http:", "/", "/", "host", "/", "q1">>
Q2 == <<"http:", "/", "/", "host", "/", "q2">>
AboutBlank == <<"about:blank">>
StartUrls == {Q1, AboutBlank}
NextUrls == {Q2, AboutBlank}

\* request bodies: BadJson is a body req.json() cannot decode
BadJson == [t |-> "invalid", v |-> 0]
Field(s) == PyStr(<<s>>)
Bodies ==
  {BadJson, PyList(<<>>), PyNum(5),
   PyDict([email |-> Field("a@x"), secret |-> Field("s1")]),
   PyDict([email |-> PyStr(<<>>), secret |-> Field("s1"), url |-> PyStr(Q1)])}
  \cup {PyDict([email |-> Field("a@x"), secret |-> Field("s1"), url |-> PyStr(u)]) :
          u \in StartUrls}

\* response.text of the analysis call: JSON texts, bare and fenced
Fence == <<BQ, BQ, BQ>>
Obj(su) == <<"{", su, ",", "q:task", "}">>
ObjNoUrl == <<"{", "q:task", "}">>
ArrOne == <<"[">> \o Obj("su:abs") \o <<"]">>
ArrEmpty == <<"[", "]">>
Truncated == <<"{", "su:abs", ",">>
FencedBlock(T) == Fence \o <<"json", "\n">> \o T \o <<"\n">> \o Fence
AnalysisTexts ==
  {Obj("su:abs"), Obj("su:root"), Obj("su:rel"), Obj("su:num"), Obj("su:empty"),
   ObjNoUrl, <<"{", "}">>, ArrOne, ArrEmpty, <<"[", "5", "]">>, <<"5">>, Truncated,
   FencedBlock(Obj("su:root")), <<" ">> \o ArrOne \o <<"\n">>}

\* the fenced layouts of a text T: the opening fence with or without a language
\* tag, the closing fence on its own line, after the content on the same
\* line, or missing; sp is whitespace around the whole
TagOf(layout) == IF layout.tag THEN <<"json">> ELSE <<>>
ClosingOf(layout) ==
  CASE layout.close = "ownline"  -> <<"\n">> \o Fence
    [] layout.close = "sameline" -> Fence
    [] layout.close = "missing"  -> <<>>
Wrap(T, layout) ==
  layout.sp \o Fence \o TagOf(layout) \o <<"\n">> \o T \o ClosingOf(layout) \o layout.sp
Layouts ==
  [tag : BOOLEAN, close : {"ownline", "sameline", "missing"}, sp : {<<>>, <<"\n">>}]

\* JSON texts on one line and on several
ObjLines(su) == <<"{", "\n", " ", su, ",", "\n", " ", "q:task", "\n", "}">>
SampleTexts ==
  {Obj("su:abs"), Obj("su:root"), Obj("su:num"), ObjNoUrl, <<"{", "}">>,
   ObjLines("su:abs"), ObjLines("su:rel"), ArrOne, ArrEmpty, <<"5">>, Truncated}
Samples ==
  {[T |-> T, text |-> Wrap(T, l), layout |-> l.close] : T \in SampleTexts, l \in Layouts}

\* outcome of a generate_content call: ApiError is an exception of the client
ApiError == [t |-> "error", v |-> 0]
AnalysisOutcomes == {ApiError, PyNone} \cup {PyStr(T) : T \in AnalysisTexts}

\* code that defines a get_answer returning a value and uses names: it
\* binds sets_global under 'global' and binds at its top level, reads
\* reads_top there and reads_body in get_answer
Uses(sets_global, binds, reads_top, reads_body) ==
  Code("ok", TRUE, "ret", sets_global, binds, reads_top, reads_body)

\* code that reads one of the imported names, at its top level or in
\* get_answer; code that binds a name (y = ..., import re) and reads it, at
\* its top level or in get_answer; code that binds G in globals(), and code
\* whose get_answer reads G
NameCodes ==
  {Uses({}, {}, {n}, {}) : n \in ImportedNames}
  \cup {Uses({}, {}, {}, {n}) : n \in ImportedNames}
  \cup {Uses({}, {"y"}, {"y"}, {}), Uses({}, {"y"}, {}, {"y"}),
        Uses({}, {"re"}, {}, {"re"}), Uses({"G"}, {}, {}, {}), Uses({}, {}, {}, {"G"})}

\* code_response.text of the code-generation call
GenCodes ==
  {GenCode("ok", TRUE, "ret"), GenCode("ok", TRUE, "none"), GenCode("ok", TRUE, "raise"),
   GenCode("ok", TRUE, "exit"), GenCode("ok", FALSE, "ret"), GenCode("raise", FALSE, "ret"),
   GenCode("exit", FALSE, "ret")}
  \cup NameCodes
CodeOutcomes == {ApiError, PyNone} \cup GenCodes

\* outcome of requests.post + res.json(): HttpError is an exception of either
HttpError == [t |-> "error", v |-> 0]
ServerResponses ==
  {HttpError, PyList(<<>>), PyDict(EmptyMap),
   PyDict([correct |-> PyBool(TRUE)]),
   PyDict([correct |-> PyBool(TRUE), url |-> PyStr(<<>>)]),
   PyDict([correct |-> PyBool(FALSE)]),
   PyDict([correct |-> PyBool(FALSE), url |-> PyStr(Q2)]),
   PyDict([correct |-> PyNum(1), url |-> PyStr(Q2)])}
  \cup {PyDict([correct |-> PyBool(TRUE), url |-> PyStr(u)]) : u \in NextUrls}

\* ------------------------------------------------------------ state

VARIABLES
  req,   \* req[q]: "none" (not sent), "pending" (received, not yet answered),
         \* or the status answered: "200", "400", "500"
  body,  \* body[q]: the body of request q
  run,   \* run[q]: the background run of request q (locals of solve_quiz_recursive)
  loop,  \* the run whose synchronous code occupies the event loop, 0 when free
  clients, \* environment: how many clients send a request
  chain,   \* environment: how many follow-up URLs the quiz servers still hand out
  sample,  \* a model response given to parse_json_response on its own
  parsed,  \* what parse_json_response returned for it
  globals  \* the names bound in the namespace of the module: globals()

vars == <<req, body, run, loop, clients, chain, sample, parsed, globals>>

\* locals of one iteration, as they are before the iteration starts
IterLocals ==
  [page_content |-> PyStr(<<>>), attempt |-> 0, response |-> PyNone,
   analysis |-> PyNone, submit_url |-> PyNone, code_response |-> PyNone,
   generated_code |-> PyStr(<<>>), answer |-> PyNone, payload |-> PyNone,
   target |-> <<>>, anaCalls |-> 0, slept |-> 0, codeFailed |-> FALSE]

\* a run: pc is its position, step the loop variable; fetches, genCalls, execs
\* and posts count the calls it made and fetched is the URL page.goto was last
\* given; anaCalls counts the analysis calls of the current iteration, slept
\* the seconds slept in it, codeFailed tells that its generated code raised
\* or bound no get_answer; res_json is the last server response;
\* code_response is the outcome of the code-generation call until the code
\* is executed
NoRun ==
  [pc |-> "Idle", email |-> PyNone, secret |-> PyNone, current_url |-> PyNone,
   step |-> 0, res_json |-> PyNone, fetched |-> PyNone, fetches |-> 0,
   genCalls |-> 0, execs |-> 0, posts |-> 0] @@ IterLocals

Terminal == {"Completed", "Aborted", "Exhausted", "Crashed"}

\* the process after startup: no request received, no run, the loop free
Started ==
  /\ req = [q \in Reqs |-> "none"]
  /\ body = [q \in Reqs |-> PyNone]
  /\ run = [q \in Reqs |-> NoRun]
  /\ loop = 0
  /\ globals = ModuleGlobals

NoSample == [T |-> <<>>, text |-> <<>>, layout |-> "none"]
NotParsed == [done |-> FALSE, bare |-> PyNone, fenced |-> PyNone]

\* one client, and quiz servers that always have a next URL
Init ==
  /\ Started /\ clients = 1 /\ chain = ChainLen
  /\ sample = NoSample /\ parsed = NotParsed

\* NumReqs clients, and quiz servers with a short chain of URLs
InitServer ==
  /\ Started /\ clients = NumReqs /\ chain = ServerChain
  /\ sample = NoSample /\ parsed = NotParsed

\* ------------------------------------------------------------ POST / (lines 234-252)

\* a client sends request q (requests are numbered in the order they arrive)
Arrive(q) ==
  /\ req[q] = "none"
  /\ q <= clients
  /\ q > 1 => req[q - 1] # "none"
  /\ \E b \in Bodies : body' = [body EXCEPT ![q] = b]
  /\ req' = [req EXCEPT ![q] = "pending"]
  /\ UNCHANGED <<run, loop, clients, chain, sample, parsed, globals>>

\* the status start_quiz answers: 400 for a body that is no JSON (line 239)
\* or lacks a field (line 247); body.get of a body that is no dict raises
\* AttributeError at line 241, which no handler catches: 500
StartQuizStatus(b) ==
  IF b.t = "invalid" THEN "400"
  ELSE IF b.t # "dict" THEN "500"
  ELSE IF ~Truthy(DictGet(b, "email")) \/ ~Truthy(DictGet(b, "secret"))
          \/ ~Truthy(DictGet(b, "url"))
       THEN "400"
       ELSE "200"

\* the run background_tasks.add_task starts (line 250, then line 103)
NewRun(b) ==
  [NoRun EXCEPT !.pc = "Fetching", !.email = DictGet(b, "email"),
                !.secret = DictGet(b, "secret"), !.current_url = DictGet(b, "url")]

\* the handler runs on the event loop: only when no run occupies it
start_quiz(q) ==
  /\ req[q] = "pending"
  /\ loop = 0
  /\ req' = [req EXCEPT ![q] = StartQuizStatus(body[q])]
  /\ run' = [run EXCEPT ![q] = IF StartQuizStatus(body[q]) = "200"
                               THEN NewRun(body[q]) ELSE @]
  /\ UNCHANGED <<body, loop, clients, chain, sample, parsed, globals>>

\* ------------------------------------------------------------ solve_quiz_recursive

MoreStepsOffByOne(step) == step < MaxSteps

\* line 106: is there another iteration after the one with loop variable step
MoreSteps(step) == step + 1 < MaxSteps

MoreAttemptsOffByOne(attempt) == attempt < MaxAttempts

\* line 143: is there another attempt after the one numbered attempt
MoreAttempts(attempt) == attempt + 1 < MaxAttempts

\* the run returns: its locals are gone; the counters and the last model
\* and server responses stay for the record
Stop(r, pc) == [r EXCEPT !.pc = pc, !.attempt = 0, !.submit_url = PyNone,
                         !.generated_code = PyStr(<<>>), !.answer = PyNone,
                         !.payload = PyNone, !.target = <<>>, !.codeFailed = FALSE]

\* page.content() of a page that was rendered
Html == PyStr(<<"html">>)

\* the failed navigation is tried again
ScrapeFailedRetries(r) ==
  [r EXCEPT !.fetches = @ + 1, !.fetched = r.current_url]

\* lines 124-126: page.goto (or another call of the block) raised, and
\* page_content is still "" (line 110); break
ScrapeFailed(r) ==
  Stop([r EXCEPT !.fetches = @ + 1, !.fetched = r.current_url], "Aborted")

\* 1. Scrape the Page (lines 109-126).  The awaits of playwright leave the
\* event loop to others; the run resumes when the loop is free and then
\* occupies it until its next await or its return.
ScrapePage(r) ==
  /\ run[r].pc = "Fetching"
  /\ loop = 0
  /\ \E ok \in BOOLEAN :
       IF ok
       THEN /\ run' = [run EXCEPT ![r] = [@ EXCEPT !.pc = "Analyzing",
                                                    !.fetches = @ + 1,
                                                    !.fetched = run[r].current_url,
                                                    !.page_content = Html]]
            /\ loop' = r
       ELSE /\ run' = [run EXCEPT ![r] = ScrapeFailed(run[r])]
            /\ loop' = 0
  /\ UNCHANGED <<req, body, clients, chain, sample, parsed, globals>>

\* line 156 (and 160): what follows the attempts, given analysis
AnalysisVerdict(analysis) ==
  IF ~Truthy(analysis) THEN "Aborted"
  ELSE IF analysis.t # "dict" THEN "Crashed"
  ELSE IF ~Truthy(DictGet(analysis, "submit_url")) THEN "Aborted"
  ELSE "Generating"

\* lines 156-163, with analysis as the attempts left it
AfterAttempts(r, analysis) ==
  IF AnalysisVerdict(analysis) = "Generating"
  THEN [r EXCEPT !.pc = "Generating", !.analysis = analysis,
                 !.submit_url = DictGet(analysis, "submit_url")]
  ELSE Stop([r EXCEPT !.analysis = analysis], AnalysisVerdict(analysis))

\* 2. one attempt of the analysis call (lines 144-153): the call raises, or
\* its text is parsed and the attempts end (break, line 151)
AnalyzePage(r) ==
  /\ run[r].pc = "Analyzing"
  /\ loop = r
  /\ \E out \in AnalysisOutcomes :
       LET called == [run[r] EXCEPT !.anaCalls = @ + 1, !.response = out]
       IN IF out.t = "error"
          THEN /\ run' = [run EXCEPT ![r] = [called EXCEPT !.pc = "Sleeping"]]
               /\ loop' = loop
          ELSE /\ run' = [run EXCEPT ![r] = AfterAttempts(called, parse_json_response(out))]
               /\ loop' = IF AnalysisVerdict(parse_json_response(out)) = "Generating"
                          THEN loop ELSE 0
  /\ UNCHANGED <<req, body, clients, chain, sample, parsed, globals>>

\* time.sleep(5) after a failed attempt (line 154), then the next attempt or,
\* after the last one, line 156 with analysis still None
RetrySleep(r) ==
  /\ run[r].pc = "Sleeping"
  /\ loop = r
  /\ LET woken == [run[r] EXCEPT !.slept = @ + RetryDelay]
     IN IF MoreAttempts(run[r].attempt)
        THEN /\ run' = [run EXCEPT ![r] = [woken EXCEPT !.pc = "Analyzing",
                                                        !.attempt = @ + 1]]
             /\ loop' = loop
        ELSE /\ run' = [run EXCEPT ![r] = AfterAttempts(woken, PyNone)]
             /\ loop' = 0
  /\ UNCHANGED <<req, body, clients, chain, sample, parsed, globals>>

\* the run goes on after the failed call, generated_code still "" (line 178)
CodeGenFailedGoesOn(r) == [r EXCEPT !.pc = "Executing"]

\* lines 186-188: generate_content raised; break
CodeGenFailed(r) == Stop(r, "Aborted")

\* 3. Generate Code to Solve (lines 179-188): one call, no retry
GenerateCode(r) ==
  /\ run[r].pc = "Generating"
  /\ loop = r
  /\ \E out \in CodeOutcomes :
       LET called == [run[r] EXCEPT !.genCalls = @ + 1, !.response = PyNone,
                                    !.analysis = PyNone, !.code_response = out]
       IN IF out.t = "error"
          THEN /\ run' = [run EXCEPT ![r] = CodeGenFailed(called)]
               /\ loop' = 0
          ELSE /\ run' = [run EXCEPT ![r] = [called EXCEPT !.pc = "Executing",
                                                           !.generated_code = out]]
               /\ loop' = loop
  /\ UNCHANGED <<req, body, clients, chain, sample, parsed, globals>>

\* 4. Execute Code (line 191): an exception that execute_generated_code lets
\* through leaves solve_quiz_recursive too, no handler is around line 191;
\* what the code bound in globals() stays bound
ExecuteCode(r) ==
  /\ run[r].pc = "Executing"
  /\ loop = r
  /\ LET res == execute_generated_code(run[r].generated_code, globals)
         ran == [run[r] EXCEPT !.execs = @ + 1, !.generated_code = PyStr(<<>>),
                               !.code_response = PyNone,
                               !.codeFailed = CodeFails(run[r].generated_code, globals)]
     IN /\ globals' = res.globals
        /\ IF res.escaped
           THEN /\ run' = [run EXCEPT ![r] = Stop(ran, "Crashed")]
                /\ loop' = 0
           ELSE /\ run' = [run EXCEPT ![r] = [ran EXCEPT !.pc = "Submitting",
                                                         !.answer = res.val]]
                /\ loop' = loop
  /\ UNCHANGED <<req, body, clients, chain, sample, parsed>>

\* the url field holds the submit URL
PayloadSubmitUrl(r) ==
  PyDict([email |-> r.email, secret |-> r.secret, url |-> r.submit_url,
          answer |-> r.answer])

\* lines 195-200
Payload(r) ==
  PyDict([email |-> r.email, secret |-> r.secret, url |-> r.current_url,
          answer |-> r.answer])

\* 5. Submit Answer (lines 195-211): the payload, the URL, requests.post
SubmitAnswer(r) ==
  /\ run[r].pc = "Submitting"
  /\ loop = r
  /\ LET to == ResolveSubmitUrl(run[r].current_url.v, run[r].submit_url)
     IN IF to.ok
        THEN /\ run' = [run EXCEPT ![r] = [@ EXCEPT !.pc = "Posted", !.posts = @ + 1,
                                                    !.payload = Payload(run[r]),
                                                    !.target = to.url,
                                                    !.submit_url = PyNone,
                                                    !.answer = PyNone]]
             /\ loop' = loop
        ELSE /\ run' = [run EXCEPT ![r] = Stop(run[r], "Aborted")]
             /\ loop' = 0
  /\ UNCHANGED <<req, body, clients, chain, sample, parsed, globals>>

\* 'correct' tested for truth instead of 'is True'
ResponseVerdictTruthy(res_json) ==
  IF res_json.t # "dict" THEN "Aborted"
  ELSE IF Truthy(DictGet(res_json, "correct"))
       THEN IF Truthy(DictGet(res_json, "url")) THEN "continue" ELSE "Completed"
       ELSE "Aborted"

\* the completion message printed whenever no next URL came
ResponseVerdictNoUrl(res_json) ==
  IF res_json.t # "dict" THEN "Aborted"
  ELSE IF ~Truthy(DictGet(res_json, "url")) THEN "Completed"
  ELSE IF DictGet(res_json, "correct").t = "bool" /\ DictGet(res_json, "correct").v
       THEN "continue"
       ELSE "Aborted"

\* lines 212-231: what the response leads to
ResponseVerdict(res_json) ==
  IF res_json.t # "dict" THEN "Aborted"
  ELSE IF DictGet(res_json, "correct").t = "bool" /\ DictGet(res_json, "correct").v
       THEN IF Truthy(DictGet(res_json, "url")) THEN "continue" ELSE "Completed"
       ELSE "Aborted"

\* the loop goes on without line 219
NextIterationSameUrl(r, next_url) ==
  IF MoreSteps(r.step)
  THEN [r EXCEPT !.pc = "Fetching", !.step = @ + 1]
  ELSE Stop(r, "Exhausted")

\* the end of the loop is reported as the completion of the quiz
NextIterationCompletes(r, next_url) ==
  IF MoreSteps(r.step)
  THEN [r EXCEPT !.pc = "Fetching", !.step = @ + 1, !.current_url = next_url]
  ELSE Stop([r EXCEPT !.current_url = next_url], "Completed")

\* the loop goes on with no bound on its iterations
NextIterationUnbounded(r, next_url) ==
  [r EXCEPT !.pc = "Fetching", !.current_url = next_url]

\* line 219, 220 and the loop header after it
NextIteration(r, next_url) ==
  IF MoreSteps(r.step)
  THEN [r EXCEPT !.pc = "Fetching", !.step = @ + 1, !.current_url = next_url]
  ELSE Stop([r EXCEPT !.current_url = next_url], "Exhausted")

\* 6. Check for Next Step (lines 212-231), when requests.post has returned
\* or raised
CheckNextStep(r) ==
  /\ run[r].pc = "Posted"
  /\ loop = r
  /\ \E res \in ServerResponses :
       LET got == [run[r] EXCEPT !.res_json = res]
       IN IF ResponseVerdict(res) = "continue"
          THEN /\ chain > 0
               /\ chain' = chain - 1
               /\ run' = [run EXCEPT ![r] =
                            NextIteration(IterLocals @@ got, DictGet(res, "url"))]
          ELSE /\ chain' = chain
               /\ run' = [run EXCEPT ![r] = Stop(got, ResponseVerdict(res))]
  /\ loop' = 0
  /\ UNCHANGED <<req, body, clients, sample, parsed, globals>>

Next ==
  \E q \in Reqs :
    \/ Arrive(q)
    \/ start_quiz(q)
    \/ ScrapePage(q)
    \/ AnalyzePage(q)
    \/ RetrySleep(q)
    \/ GenerateCode(q)
    \/ ExecuteCode(q)
    \/ SubmitAnswer(q)
    \/ CheckNextStep(q)

Spec == Init /\ [][Next]_vars

SpecServer == InitServer /\ [][Next]_vars

\* a step of run r
RunStep(r) ==
  \/ ScrapePage(r) \/ AnalyzePage(r) \/ RetrySleep(r) \/ GenerateCode(r)
  \/ ExecuteCode(r) \/ SubmitAnswer(r) \/ CheckNextStep(r)

\* Every external call (page render, model call, generated code, post) and
\* the sleep return or raise, and the event loop resumes the one run there
\* is: a step of the run that stays possible is taken.
SpecFair == Init /\ [][Next]_vars /\ \A r \in Reqs : WF_vars(RunStep(r))

\* ------------------------------------------------------------ parse_json_response alone

InitParse ==
  /\ Started /\ clients = 0 /\ chain = 0
  /\ sample \in Samples /\ parsed = NotParsed

\* the parser applied to the text T and to T inside a fence
ParseSample ==
  /\ ~parsed.done
  /\ parsed' = [done |-> TRUE,
                bare |-> parse_json_response(PyStr(sample.T)),
                fenced |-> parse_json_response(PyStr(sample.text))]
  /\ UNCHANGED <<req, body, run, loop, clients, chain, sample, globals>>

NextParse == ParseSample

SpecParse == InitParse /\ [][NextParse]_vars

\* ------------------------------------------------------------ properties

\* the response has 'correct' exactly the boolean true
CorrectTrue(res) ==
  /\ res.t = "dict"
  /\ "correct" \in DOMAIN res.v
  /\ res.v["correct"].t = "bool"
  /\ res.v["correct"].v = TRUE

\* the response carries a next URL: a str that is not empty
HasNextUrl(res) ==
  /\ res.t = "dict"
  /\ "url" \in DOMAIN res.v
  /\ res.v["url"].t = "str"
  /\ res.v["url"].v # <<>>

\* this step handles the response to the submission of run r
Answered(r) == run[r].pc = "Posted" /\ run'[r].pc # "Posted"

\* run r is between the fetch and the response of an iteration
InIteration(r) ==
  run[r].pc \in {"Analyzing", "Sleeping", "Generating", "Executing", "Submitting", "Posted"}

\* a run that is over makes no further step: nothing of it changes, so it
\* makes no further call
Frozen(r) == run[r].pc \in Terminal => run'[r] = run[r]

\* C1: in one run at most 10 pages are fetched and at most 10 answers are
\* submitted, whatever the pages, the model and the servers answer.
C1_LoopBound == \A r \in Reqs : run[r].fetches <= 10 /\ run[r].posts <= 10

\* a run that fetched 10 pages and submitted 10 answers
C1_Witness == \E r \in Reqs : run[r].fetches = 10 /\ run[r].posts = 10

\* in an iteration after the first, the page fetched and the url field of the
\* payload posted are the URL of the response that led to the iteration
C2_UsesUrl ==
  \A r \in Reqs :
    (InIteration(r) /\ run[r].step > 0) =>
      /\ run[r].fetched = run[r].res_json.v["url"]
      /\ run[r].pc = "Posted" => run[r].payload.v["url"] = run[r].res_json.v["url"]

\* C2 as stated: whenever the response has correct true and a next URL, the
\* run continues, and the next iteration fetches that URL and submits it as
\* the url field of its payload.
C2_Original ==
  /\ [][\A r \in Reqs :
          (Answered(r) /\ CorrectTrue(run'[r].res_json) /\ HasNextUrl(run'[r].res_json))
            => /\ run'[r].pc = "Fetching"
               /\ run'[r].current_url = run'[r].res_json.v["url"]]_vars
  /\ []C2_UsesUrl

\* C2 amended: the same, for a response to an iteration that is not the 10th
\* of its run.
C2_NextUrl ==
  /\ [][\A r \in Reqs :
          (/\ Answered(r) /\ CorrectTrue(run'[r].res_json)
           /\ HasNextUrl(run'[r].res_json) /\ run[r].step + 1 < 10)
            => /\ run'[r].pc = "Fetching"
               /\ run'[r].step = run[r].step + 1
               /\ run'[r].current_url = run'[r].res_json.v["url"]]_vars
  /\ []C2_UsesUrl

\* a later iteration has submitted the URL that the previous response gave
C2_Witness ==
  \E r \in Reqs :
    /\ run[r].pc = "Posted" /\ run[r].step > 0
    /\ CorrectTrue(run[r].res_json) /\ HasNextUrl(run[r].res_json)
    /\ run[r].payload.v["url"] = run[r].res_json.v["url"]
    /\ run[r].fetched = run[r].res_json.v["url"]

\* C3: after a response with correct true and no next URL the run is
\* Completed; after any other response that is not correct true, after an
\* error of the submission, and after an error before the post, the run is
\* Aborted; a run that is Completed or Aborted makes no further call, so the
\* submission is not retried.
C3_SubmitOutcome ==
  [][\A r \in Reqs :
       /\ (Answered(r) /\ CorrectTrue(run'[r].res_json) /\ ~HasNextUrl(run'[r].res_json))
            => run'[r].pc = "Completed"
       /\ (Answered(r) /\ ~CorrectTrue(run'[r].res_json)) => run'[r].pc = "Aborted"
       /\ (run[r].pc = "Submitting" /\ run'[r].pc \notin {"Submitting", "Posted"})
            => run'[r].pc = "Aborted" /\ run'[r].posts = run[r].posts
       /\ Frozen(r)]_vars

\* a run Aborted by a response that is not correct true
C3_Witness ==
  \E r \in Reqs :
    /\ run[r].pc = "Aborted" /\ run[r].posts = run[r].step + 1
    /\ run[r].res_json.t = "dict" /\ ~CorrectTrue(run[r].res_json)

\* C4: a run becomes Completed only by the response to its submission, a
\* response with correct true and no next URL; a run that is Completed or
\* Aborted stays as it is.
C4_Terminal ==
  [][\A r \in Reqs :
       /\ (run'[r].pc = "Completed" /\ run[r].pc # "Completed")
            => /\ Answered(r)
               /\ CorrectTrue(run'[r].res_json)
               /\ ~HasNextUrl(run'[r].res_json)
       /\ (run[r].pc \in {"Completed", "Aborted"}) => run'[r] = run[r]]_vars

\* a run Completed by a response with correct true and no next URL
C4_Witness ==
  \E r \in Reqs :
    /\ run[r].pc = "Completed"
    /\ CorrectTrue(run[r].res_json) /\ ~HasNextUrl(run[r].res_json)

\* the body is no JSON, no object, or an object without one of the fields
BodyLacksField(b) ==
  \/ b.t # "dict"
  \/ \E k \in {"email", "secret", "url"} : k \notin DOMAIN b.v

\* C5 as stated: a request whose body is no valid JSON, or lacks one of
\* email, secret, url (a JSON body that is no object included), is answered
\* 400 and starts no run.
C5_Original ==
  \A q \in Reqs :
    (req[q] \notin {"none", "pending"} /\ BodyLacksField(body[q]))
      => req[q] = "400" /\ run[q].pc = "Idle"

\* the body has the three fields, each a str that is not empty
ValidBody(b) ==
  /\ b.t = "dict"
  /\ \A k \in {"email", "secret", "url"} :
       k \in DOMAIN b.v /\ b.v[k].t = "str" /\ b.v[k].v # <<>>

\* C6 as stated: a request with a valid body is answered 200 and starts its
\* run, and no request waits for its answer while a run occupies the event
\* loop with its retry sleep, a model call, the generated code or the post.
C6_Original ==
  /\ \A q \in Reqs :
       (req[q] \notin {"none", "pending"} /\ ValidBody(body[q]))
         => req[q] = "200" /\ run[q].pc # "Idle"
  /\ \A q \in Reqs : (req[q] = "pending" /\ ValidBody(body[q])) => loop = 0

\* C7 as stated: when the generated code raises or binds no get_answer, the
\* run goes on to the submission with answer None, and the submission of
\* that iteration is posted with answer null and with email, secret and url
\* as the run has them.
C7_Original ==
  [][\A r \in Reqs :
       /\ (/\ run[r].pc = "Executing" /\ run'[r].pc # "Executing"
           /\ CodeFails(run[r].generated_code, globals))
            => run'[r].pc = "Submitting" /\ run'[r].answer = PyNone
       /\ (/\ run[r].pc = "Submitting" /\ run'[r].pc # "Submitting"
           /\ run[r].codeFailed)
            => /\ run'[r].pc = "Posted"
               /\ run'[r].posts = run[r].posts + 1
               /\ run'[r].payload.v["answer"] = PyNone
               /\ run'[r].payload.v["email"] = run[r].email
               /\ run'[r].payload.v["secret"] = run[r].secret
               /\ run'[r].payload.v["url"] = run[r].current_url]_vars

\* the analysis gave no submission URL: no result (None), a result that is
\* no object, or an object whose submit_url is absent or empty
NoSubmitUrl(analysis) ==
  \/ analysis.t # "dict"
  \/ "submit_url" \notin DOMAIN analysis.v
  \/ analysis.v["submit_url"] = PyStr(<<>>)

\* the attempts of run r end in this step
AttemptsEnd(r) ==
  /\ run[r].pc \in {"Analyzing", "Sleeping"}
  /\ run'[r].pc \notin {"Analyzing", "Sleeping"}

\* an iteration makes at most 3 analysis calls; before attempt number k
\* (from 0) exactly k calls were made, the last of them failed, and 5
\* seconds were slept after each
C8_Attempts ==
  \A r \in Reqs :
    /\ run[r].anaCalls <= 3
    /\ run[r].pc = "Analyzing" =>
         /\ run[r].anaCalls = run[r].attempt
         /\ run[r].slept = 5 * run[r].attempt
         /\ run[r].attempt > 0 => run[r].response.t = "error"
    /\ run[r].pc = "Sleeping" =>
         /\ run[r].anaCalls = run[r].attempt + 1
         /\ run[r].slept = 5 * run[r].attempt
         /\ run[r].response.t = "error"

ObjAbs ==
  PyDict([submit_url |-> PyStr(<<"http:", "/", "/", "host", "/", "submit">>),
          question |-> PyStr(<<"task">>)])

\* run r stopped in the Analyze step of its current iteration: every earlier
\* iteration made one code-generation call, one execution and one post, this
\* one none
AbortedAtAnalyze(r) ==
  /\ run[r].pc = "Aborted"
  /\ run[r].genCalls = run[r].step
  /\ run[r].execs = run[r].step
  /\ run[r].posts = run[r].step

C9_Results ==
  \A r \in Reqs :
    /\ run[r].response = PyStr(ArrOne) => run[r].analysis = ObjAbs
    /\ run[r].response = PyStr(ArrEmpty) =>
         run[r].analysis = PyDict(EmptyMap) /\ AbortedAtAnalyze(r)
    /\ run[r].response = PyStr(Truncated) =>
         run[r].analysis = PyNone /\ AbortedAtAnalyze(r)

\* C9: for a model response that is an array with one object the parser
\* returns the object, for the empty array the empty mapping, for invalid
\* JSON None; in the last two cases the run aborts in the Analyze step:
\* no code generation, no submission, and no further model call.
C9_Parse == []C9_Results /\ [][\A r \in Reqs : Frozen(r)]_vars

\* a run aborted in the Analyze step by the empty array
C9_Witness ==
  \E r \in Reqs :
    /\ run[r].response = PyStr(ArrEmpty)
    /\ run[r].analysis = PyDict(EmptyMap)
    /\ AbortedAtAnalyze(r)

\* the text is a JSON object
IsObjectText(T) == json_loads(T).ok /\ json_loads(T).val.t = "dict"

\* C10 as stated: when the text T parses to an object, T inside a fence
\* parses to the same object, for every layout of the fence.
C10_Original ==
  (parsed.done /\ IsObjectText(sample.T) /\ parsed.bare.t = "dict")
    => parsed.fenced = parsed.bare

\* the URL begins with <scheme>://<host>
HasSchemeHost(url) == Len(url) >= 4 /\ url[2] = "/" /\ url[3] = "/"

\* the URL a submission is to be posted to, by the three rules: an absolute
\* submit URL as it is, one beginning with "/" after <scheme>://<host> of
\* the current URL, any other after the current URL and a "/"
PostedTo(current_url, submit_url) ==
  IF Head(submit_url) \in {"http:", "https:"} THEN submit_url
  ELSE IF Head(submit_url) = "/" THEN SubSeq(current_url, 1, 4) \o submit_url
  ELSE current_url \o <<"/">> \o submit_url

\* C11 as stated: for every current URL and every submit URL (a str) the
\* submission is posted, to the submit URL when it is absolute, to
\* <scheme>://<host> of the current URL followed by it when it begins with
\* "/", and to <current_url>/<submit_url> otherwise, whatever the shape of
\* the current URL.
C11_Original ==
  [][\A r \in Reqs :
       (/\ run[r].pc = "Submitting" /\ run'[r].pc # "Submitting"
        /\ run[r].submit_url.t = "str"
        /\ Head(run[r].submit_url.v) = "/" => HasSchemeHost(run[r].current_url.v))
         => /\ run'[r].pc = "Posted"
            /\ run'[r].target = PostedTo(run[r].current_url.v, run[r].submit_url.v)]_vars

\* the Fetch step of run r fails in this step: it ends with no page content
FetchFails(r) ==
  run[r].pc = "Fetching" /\ run'[r] # run[r] /\ run'[r].page_content = PyStr(<<>>)

GenFails(r) ==
  run[r].pc = "Generating" /\ run'[r] # run[r] /\ run'[r].code_response.t = "error"

\* iteration number step + 1 has made no code-generation call before the
\* Generate step has acted and one after, so a run has made one call per
\* iteration at most
C13_Once ==
  \A r \in Reqs :
    /\ run[r].genCalls <= run[r].step + 1
    /\ run[r].pc \in {"Fetching", "Analyzing", "Sleeping", "Generating"}
         => run[r].genCalls = run[r].step
    /\ run[r].pc \in {"Executing", "Submitting", "Posted"}
         => run[r].genCalls = run[r].step + 1

\* C13: an iteration makes at most one code-generation call; when the call
\* fails the run is Aborted, no code was executed and no submission made in
\* the iteration, and the run makes no call afterwards.
C13_CodeGen ==
  /\ []C13_Once
  /\ [][\A r \in Reqs :
          /\ GenFails(r)
               => /\ run'[r].pc = "Aborted"
                  /\ run'[r].genCalls = run[r].genCalls + 1
                  /\ run'[r].execs = run[r].execs
                  /\ run'[r].posts = run[r].posts
          /\ Frozen(r)]_vars

\* a run aborted by the failed code-generation call of a later iteration
C13_Witness ==
  \E r \in Reqs :
    /\ run[r].pc = "Aborted" /\ run[r].step > 0
    /\ run[r].code_response.t = "error"
    /\ run[r].genCalls = run[r].step + 1
    /\ run[r].execs = run[r].step /\ run[r].posts = run[r].step

\* the capability set: HTTP client, tabular data, numeric arrays, PDF
\* extraction, regular expressions, JSON
Capabilities == {"requests", "pd", "np", "PyPDF2", "re", "json"}

\* the code defines a get_answer that returns a value, no statement of it
\* raises by itself, and the names it reads are names of the capability set
\* or names its own top level binds
UsesOnlyProvided(code_str) ==
  /\ code_str.t = "code"
  /\ code_str.v.top = "ok" /\ code_str.v.defines /\ code_str.v.body = "ret"
  /\ code_str.v.reads_top \subseteq Capabilities \cup code_str.v.binds
  /\ code_str.v.reads_body \subseteq Capabilities \cup code_str.v.binds

\* C14 as stated: generated code resolves every name of the capability set
\* and every name its own top level binds, at its top level and inside
\* get_answer: executing code that reads only such names gives the value
\* its get_answer returns.
C14_Original ==
  [][\A r \in Reqs :
       (/\ run[r].pc = "Executing" /\ run'[r].pc # "Executing"
        /\ UsesOnlyProvided(run[r].generated_code))
         => run'[r].pc = "Submitting" /\ run'[r].answer = PyNum(42)]_vars

\* C15 as stated: the environment of the generated code is fresh in every
\* call: what a call of execute_generated_code gives is what the code gives
\* in the namespace the module had at startup, whatever code was executed
\* before, by the same run or by another.
C15_Original ==
  [][\A r \in Reqs :
       (run[r].pc = "Executing" /\ run'[r].pc # "Executing")
         => /\ (run'[r].pc = "Crashed") =
                 execute_generated_code(run[r].generated_code, ModuleGlobals).escaped
            /\ run'[r].pc = "Submitting" =>
                 run'[r].answer =
                   execute_generated_code(run[r].generated_code, ModuleGlobals).val]_vars

\* the step after each step, in the order Fetch, Analyze (with the delay
\* between its attempts), Generate, Execute, Submit
NextSteps(pc) ==
  CASE pc = "Fetching"   -> {"Analyzing"}
    [] pc = "Analyzing"  -> {"Sleeping", "Generating"}
    [] pc = "Sleeping"   -> {"Analyzing"}
    [] pc = "Generating" -> {"Executing"}
    [] pc = "Executing"  -> {"Submitting"}
    [] pc = "Submitting" -> {"Posted"}
    [] OTHER -> {}

\* a submission of iteration number step + 1 was made after the page of the
\* iteration was fetched, its analysis gave a submit URL, its code was
\* generated and executed, and it is the only one of the iteration
C16_SubmitOnce ==
  \A r \in Reqs :
    /\ run[r].posts <= run[r].step + 1
    /\ run[r].pc = "Posted" =>
         /\ run[r].posts = run[r].step + 1
         /\ run[r].fetches = run[r].step + 1 /\ run[r].page_content # PyStr(<<>>)
         /\ run[r].fetched = run[r].current_url
         /\ run[r].genCalls = run[r].step + 1 /\ run[r].execs = run[r].step + 1
         /\ run[r].target # <<>>

\* C16 as stated: in an iteration the steps follow each other in the order
\* Fetch, Analyze, Generate, Execute, Submit; a submission is made at most
\* once per iteration and after the fetch, the analysis and the code
\* generation of the iteration succeeded; every step before the post leads
\* to the next step or to Aborted.
C16_Original ==
  /\ []C16_SubmitOnce
  /\ [][\A r \in Reqs :
          (run[r].pc \in {"Fetching", "Analyzing", "Sleeping", "Generating",
                          "Executing", "Submitting"} /\ run'[r].pc # run[r].pc)
            => run'[r].pc \in NextSteps(run[r].pc) \cup {"Aborted"}]_vars

\* the payload of a submission has the email and the secret of the request
\* that started the run, and as url the URL of the page fetched in the
\* iteration: the url of the request in the first iteration, the url of the
\* last response in a later one; it is not the URL posted to
C17_Carries ==
  \A r \in Reqs :
    run[r].pc = "Posted" =>
      /\ run[r].payload.v["email"] = body[r].v["email"]
      /\ run[r].payload.v["secret"] = body[r].v["secret"]
      /\ run[r].payload.v["url"] = run[r].fetched
      /\ run[r].fetches = run[r].step + 1
      /\ run[r].payload.v["url"] =
           IF run[r].step = 0 THEN body[r].v["url"] ELSE run[r].res_json.v["url"]
      /\ run[r].payload.v["url"] # PyStr(run[r].target)

\* C17: every payload a run submits carries the email and the secret given
\* at invocation, which no step of the run changes, and as url the current
\* URL fetched in the same iteration, not the submit URL and not the URL of
\* another iteration.
C17_Payload ==
  /\ []C17_Carries
  /\ [][\A r \in Reqs :
          run[r].pc # "Idle" =>
            run'[r].email = run[r].email /\ run'[r].secret = run[r].secret]_vars

\* the submission of a later iteration, whose page is not the page of the
\* first one
C17_Witness ==
  \E r \in Reqs :
    /\ run[r].pc = "Posted" /\ run[r].step > 0
    /\ run[r].payload.v["email"] = body[r].v["email"]
    /\ run[r].payload.v["url"] = run[r].fetched
    /\ run[r].payload.v["url"] # body[r].v["url"]

\* C18: every run that was started eventually stops, Completed, Aborted,
\* by an error that leaves it, or by the exhaustion of its 10 iterations,
\* when every external call returns or fails; and it stops by itself: the
\* servers are at every moment ready to answer correct with a next URL.
C18_Terminates ==
  /\ \A r \in Reqs : (run[r].pc # "Idle") ~> (run[r].pc \in Terminal)
  /\ [](chain > 0)

\* a run that stopped by exhaustion, after 10 answers that were each correct
\* with a next URL
C18_Witness ==
  \E r \in Reqs :
    /\ run[r].pc = "Exhausted" /\ run[r].posts = 10
    /\ CorrectTrue(run[r].res_json) /\ HasNextUrl(run[r].res_json)
    /\ chain > 0

\* C19 as stated: whatever the model returns at the Analyze step (JSON that
\* is no object included) and whatever body the server answers (JSON that
\* is no object included), the step ends by the next step or by a handled
\* abort: no exception leaves solve_quiz_recursive.
C19_Original ==
  [][\A r \in Reqs :
       /\ (AttemptsEnd(r) /\ run'[r].analysis.t # "dict") => run'[r].pc = "Aborted"
       /\ (Answered(r) /\ run'[r].res_json.t # "dict") => run'[r].pc = "Aborted"
       /\ run[r].pc \in {"Analyzing", "Sleeping", "Posted"} => run'[r].pc # "Crashed"]_vars

\* a run that stopped by exhaustion is in its 10th iteration, has fetched 10
\* pages and posted 10 answers, and its last response is correct with a next
\* URL
C20_Exhausted ==
  \A r \in Reqs :
    run[r].pc = "Exhausted" =>
      /\ run[r].step = 9 /\ run[r].fetches = 10 /\ run[r].posts = 10
      /\ CorrectTrue(run[r].res_json) /\ HasNextUrl(run[r].res_json)

\* C20: when the response to the submission of the 10th iteration is
\* correct with a next URL, the run stops by the exhaustion of its
\* iterations: it is neither Completed nor Aborted nor ended by an error,
\* the next URL is not fetched and no other call is made in that step or
\* afterwards.
C20_Exhaustion ==
  /\ []C20_Exhausted
  /\ [][\A r \in Reqs :
          /\ (/\ Answered(r) /\ run[r].step = 9
              /\ CorrectTrue(run'[r].res_json) /\ HasNextUrl(run'[r].res_json))
               => /\ run'[r].pc = "Exhausted"
                  /\ run'[r].fetches = run[r].fetches
                  /\ run'[r].fetched = run[r].fetched
                  /\ run'[r].posts = run[r].posts
          /\ run[r].pc = "Exhausted" => run'[r] = run[r]]_vars

\* a run stopped by exhaustion whose last response named a page other than
\* the last page it fetched
C20_Witness ==
  \E r \in Reqs :
    /\ run[r].pc = "Exhausted" /\ run[r].step = 9
    /\ run[r].res_json.v["url"] # run[r].fetched
    /\ run[r].fetches = 10

====
